---- MODULE Spec2Model ----
(***************************************************************************)
(* The Vozi backend (src/main.py, src/services.py) as a state machine.     *)
(*                                                                         *)
(* Three FastAPI endpoints, all declared `async def`, are served by one    *)
(* event-loop thread.  A handler is modelled as a sequence of steps (one   *)
(* per external call or filesystem operation); the handlers contain no     *)
(* suspending await (time.sleep and the genai / yt-dlp / transcript calls  *)
(* are blocking calls made on the loop thread), so the variable `loop`     *)
(* names the one request whose handler is executing.                       *)
(*                                                                         *)
(* Text is a sequence of one-character strings, a path a sequence of path  *)
(* components, an exception message a sequence of message fragments.       *)
(***************************************************************************)
EXTENDS Integers, Sequences, FiniteSets, TLC

\* ------------------------------------------------------------------ bounds

MaxUrlLen == 4      \* tokens in a submitted url
MaxEntries == 2     \* entries of a caption transcript
MaxPolls == 2       \* the poll counter saturates here (the loop itself is unbounded)

Reqs == {1, 2}      \* the requests: two, to let one arrive while the other is served

\* ---------------------------------------------------------- text utilities

None == <<>>

StartsWith(s, p) == Len(s) >= Len(p) /\ SubSeq(s, 1, Len(p)) = p

Drop(s, n) == SubSeq(s, n + 1, Len(s))

\* the concatenation of a sequence of sequences
Flatten(ss) ==
    LET upto[i \in 0..Len(ss)] == IF i = 0 THEN <<>> ELSE upto[i - 1] \o ss[i]
    IN  upto[Len(ss)]

\* str.replace(old, "") for a one-element `old`
RemoveAll(s, x) == Flatten([i \in 1..Len(s) |-> IF s[i] = x THEN <<>> ELSE <<s[i]>>])

RECURSIVE SeqsUpTo(_, _)
SeqsUpTo(S, n) ==
    IF n = 0 THEN {<<>>}
    ELSE LET shorter == SeqsUpTo(S, n - 1)
         IN  shorter \cup {Append(s, x) : s \in shorter, x \in S}

Merge(f, g) == [k \in DOMAIN f |-> IF k \in DOMAIN g THEN g[k] ELSE f[k]]

Inc(n) == IF n < MaxPolls + 1 THEN n + 1 ELSE n

\* ------------------------------------------------------------- url matching

UrlTokens == {"https://", "www.", "youtube.com", "youtu.be", "/", "x"}

CharsOf(t) ==
    CASE t = "https://"    -> <<"h","t","t","p","s",":","/","/">>
      [] t = "http://"     -> <<"h","t","t","p",":","/","/">>
      [] t = "www."        -> <<"w","w","w",".">>
      [] t = "youtube.com" -> <<"y","o","u","t","u","b","e",".","c","o","m">>
      [] t = "youtu.be"    -> <<"y","o","u","t","u",".","b","e">>
      [] t = "/"           -> <<"/">>
      [] t = "x"           -> <<"x">>

\* the characters of a url given as tokens
UrlChars(u) == Flatten([i \in 1..Len(u) |-> CharsOf(u[i])])

\* `.+$` at the end of a pattern: one or more characters other than a line
\* feed, up to the end of the string or to a final line feed
DotPlusEnd(s) ==
    LET body == IF s # <<>> /\ s[Len(s)] = "\n" THEN SubSeq(s, 1, Len(s) - 1) ELSE s
    IN  /\ body # <<>>
        /\ \A i \in 1..Len(body) : body[i] # "\n"

\* YOUTUBE_URL_REGEX matched at the head of s
MatchUrlAtHead(s) ==
    \E scheme \in {<<>>, CharsOf("http://"), CharsOf("https://")},
       www \in {<<>>, CharsOf("www.")},
       host \in {CharsOf("youtube.com"), CharsOf("youtu.be")} :
        LET prefix == scheme \o www \o host \o <<"/">>
        IN  StartsWith(s, prefix) /\ DotPlusEnd(Drop(s, Len(prefix)))

\* a variant that finds the pattern anywhere in the url (re.search for re.match)
YOUTUBE_URL_REGEX_searched(s) == \E i \in 0..Len(s) : MatchUrlAtHead(Drop(s, i))

\* re.match(YOUTUBE_URL_REGEX, url) on the characters of url
YOUTUBE_URL_REGEX(s) == MatchUrlAtHead(s)

\* extract_video_id: the patterns, tried in order with re.search; the video id
\* is the longest run of characters other than & ? / after the matched prefix
IdStop == {"&", "?", "/"}

Least(S) == CHOOSE i \in S : \A j \in S : i <= j

IdPrefixes ==
    << {CharsOf("youtube.com") \o <<"/","w","a","t","c","h","?","v","=">>,
        CharsOf("youtu.be") \o <<"/">>},
       {CharsOf("youtube.com") \o <<"/","e","m","b","e","d","/">>},
       {CharsOf("youtube.com") \o <<"/","v","/">>} >>

\* the end of the run of id characters that starts at position j of s
IdRun(s, j) ==
    Least({e \in j..Len(s) + 1 : e = Len(s) + 1 \/ s[e] \in IdStop}) - 1

\* <<i, j>>: one of the prefixes matches at position i of s and a non-empty id
\* starts at position j, right after it
IdMatches(s, prefixes) ==
    {<<c[1], c[1] + Len(c[2])>> :
        c \in {d \in (1..Len(s)) \X prefixes :
                  /\ StartsWith(Drop(s, d[1] - 1), d[2])
                  /\ d[1] + Len(d[2]) <= Len(s)
                  /\ s[d[1] + Len(d[2])] \notin IdStop}}

\* re.search answers the leftmost match
IdAt(s, matches) ==
    LET m == CHOOSE a \in matches : \A b \in matches : a[1] <= b[1]
    IN  SubSeq(s, m[2], IdRun(s, m[2]))

\* a variant that takes the whole url for the id when no pattern matches
extract_video_id_or_url(s) == [found |-> TRUE, id |-> s]

\* [found, id]: found = FALSE stands for the ValueError of line 91
extract_video_id(s) ==
    LET hits == {k \in 1..Len(IdPrefixes) : IdMatches(s, IdPrefixes[k]) # {}}
    IN  IF hits = {} THEN [found |-> FALSE, id |-> <<>>]
        ELSE [found |-> TRUE, id |-> IdAt(s, IdMatches(s, IdPrefixes[Least(hits)]))]

\* ------------------------------------------------------- caption formatting

Digit == <<"0","1","2","3","4","5","6","7","8","9">>

RECURSIVE Dec(_)
Dec(n) == IF n < 10 THEN <<Digit[n + 1]>> ELSE Dec(n \div 10) \o <<Digit[(n % 10) + 1]>>

\* format(n, "02d") for n >= 0
Pad2(n) == IF n < 10 THEN <<"0">> \o Dec(n) ELSE Dec(n)

\* a variant that rounds to the nearest second
IntSecondsRounded(ms) == (ms + 500) \div 1000

\* int(entry['start']) of a start given in milliseconds
IntSeconds(ms) == ms \div 1000

SecondsPerMinute == 60

\* a variant that opens an hour field from one hour on
FormatEntryWithHours(entry) ==
    LET timestamp == IntSeconds(entry.start)
        hours == timestamp \div (SecondsPerMinute * SecondsPerMinute)
        minutes == (timestamp \div SecondsPerMinute) % SecondsPerMinute
        seconds == timestamp % SecondsPerMinute
    IN  (IF hours > 0 THEN <<"[">> \o Pad2(hours) \o <<":">> ELSE <<"[">>)
            \o Pad2(minutes) \o <<":">> \o Pad2(seconds) \o <<"]", " ">>
            \o entry.text \o <<"\n">>

FormatEntry(entry) ==
    LET timestamp == IntSeconds(entry.start)
        minutes == timestamp \div SecondsPerMinute
        seconds == timestamp % SecondsPerMinute
    IN  <<"[">> \o Pad2(minutes) \o <<":">> \o Pad2(seconds) \o <<"]", " ">>
            \o entry.text \o <<"\n">>

FormatTranscript(transcript_data) ==
    Flatten([i \in 1..Len(transcript_data) |-> FormatEntry(transcript_data[i])])

\* what the caption source can return: entries with a start (ms) and a text
StartsMs == {125700, 3661000}
Texts == {<<"h","i">>, <<"a","\r","b">>}
Entries == [start : StartsMs, text : Texts]
Transcripts == SeqsUpTo(Entries, MaxEntries)

\* ------------------------------------------------------ text-mode file I/O

LineSep == <<"\n">>     \* os.linesep of the deployment platform

\* open(path, 'w', encoding='utf-8').write(s): each line feed becomes os.linesep
WriteText(s) == Flatten([i \in 1..Len(s) |-> IF s[i] = "\n" THEN LineSep ELSE <<s[i]>>])

\* open(path, 'r', encoding='utf-8').read(): universal newlines, so \r\n and a
\* lone \r both arrive as \n
ReadText(s) ==
    Flatten([i \in 1..Len(s) |->
                IF s[i] = "\r" THEN <<"\n">>
                ELSE IF s[i] = "\n" /\ i > 1 /\ s[i - 1] = "\r" THEN <<>>
                ELSE <<s[i]>>])

\* -------------------------------------------------------------------- state

VARIABLES
    loop,       \* the request whose handler occupies the event-loop thread, 0 when free
    pc,         \* each request's position
    kind,       \* the endpoint each request addresses
    data,       \* the request body, for as long as the handler still reads it
    local,      \* the local variables of the running handler and of the services it calls
    calls,      \* the external calls made so far by the running handler
    disk,       \* the paths that exist on local storage
    ftext,      \* what the running handler wrote to its transcript file
    resp        \* the status line of the response sent

vars == <<loop, pc, kind, data, local, calls, disk, ftext, resp>>

Kinds == {"transcribe", "analyze", "youtube"}

NoData == [present |-> FALSE, val |-> <<>>]

Urls == SeqsUpTo(UrlTokens, MaxUrlLen)

Inputs(k) ==
    CASE k = "youtube"    -> {NoData} \cup {[present |-> TRUE, val |-> u] : u \in Urls}
      [] k = "analyze"    -> {NoData, [present |-> TRUE, val |-> <<>>],
                              [present |-> TRUE, val |-> <<"h","i">>]}
      [] k = "transcribe" -> {[present |-> TRUE, val |-> <<>>]}

\* responses, and the pending return value or exception of a handler
NoResp == [status |-> 0, kind |-> "none", text |-> <<>>]
Ok(field, text) == [status |-> 200, kind |-> field, text |-> text]
HTTPException(status_code, detail) == [status |-> status_code, kind |-> "detail", text |-> detail]
\* an exception that escapes the handler: the framework answers a bare 500
Unhandled == [status |-> 500, kind |-> "unhandled", text |-> <<>>]

\* results of process_audio: a returned text or a raised exception
Returned(text) == [ok |-> TRUE, text |-> text]
Raised(msg) == [ok |-> FALSE, text |-> msg]
NoResult == [ok |-> FALSE, text |-> <<>>]

LocalInit ==
    [ temp_file_path  |-> None,     \* transcribe_endpoint
      audio_file_path |-> None,     \* transcribe_youtube_endpoint
      temp_dir        |-> None,     \* download_youtube_audio
      e               |-> None,     \* the exception of the primary download
      transcript_error |-> None,    \* the exception of the caption fallback
      lang            |-> 0,        \* get_youtube_transcript: index into languages_to_try
      queried         |-> <<>>,     \* the language preferences queried so far
      found_lang      |-> 0,        \* the preference whose query returned, 0 if none
      transcript_data |-> <<>>,
      transcript_text |-> <<>>,
      audio_file      |-> "None",   \* process_audio: the state of the remote handle
      result          |-> NoResult, \* what process_audio returns or raises
      pending         |-> NoResp,   \* what the endpoint's try/except returns or raises
      cleanup_failed  |-> FALSE,    \* a removal or deletion of this handler has failed
      final           |-> NoResp ]  \* what leaves the endpoint after its finally block

CallsInit ==
    [ download |-> 0, fallback |-> 0, transcript |-> 0, upload |-> 0, poll |-> 0,
      generate |-> 0, delete |-> 0, analyze |-> 0 ]

Init ==
    /\ loop = 0
    /\ pc = [r \in Reqs |-> "idle"]
    /\ kind = [r \in Reqs |-> "none"]
    /\ data = [r \in Reqs |-> NoData]
    /\ local = [r \in Reqs |-> LocalInit]
    /\ calls = [r \in Reqs |-> CallsInit]
    /\ disk = {}
    /\ ftext = [r \in Reqs |-> <<>>]
    /\ resp = [r \in Reqs |-> NoResp]

\* updates of one request's locals, counters and position
Set(r, fields) == local' = [local EXCEPT ![r] = Merge(@, fields)]
Count(r, name) == calls' = [calls EXCEPT ![r][name] = Inc(@)]
Goto(r, label) == pc' = [pc EXCEPT ![r] = label]

\* ------------------------------------------------------------ the filesystem

UploadPath(r) == <<"tmp", ToString(r), "upload">>
DownloadDir(r) == <<"tmp", ToString(r), "dl">>
TranscriptDir(r) == <<"tmp", ToString(r), "tr">>

Dirname(p) == SubSeq(p, 1, Len(p) - 1)
Exists(p) == p \in disk
RmTree(d) == {p \in disk : ~StartsWith(p, d)}
TempDirsOf(r) == {DownloadDir(r), TranscriptDir(r)}

\* ------------------------------------------------------------ the event loop

\* a request reaches the server
Arrive(r) ==
    /\ pc[r] = "idle"
    /\ \E k \in Kinds : kind' = [kind EXCEPT ![r] = k]
    /\ Goto(r, "queued")
    /\ UNCHANGED <<loop, data, local, calls, disk, ftext, resp>>

Entry(k) ==
    CASE k = "transcribe" -> "tr_save"
      [] k = "analyze"    -> "analyze"
      [] k = "youtube"    -> "yt_validate"

\* the loop thread is free to run the next handler
LoopFree(r) == loop = 0

\* the event loop starts the handler coroutine of a queued request, whose body
\* is one of `bodies`
StartWith(r, bodies) ==
    /\ pc[r] = "queued"
    /\ LoopFree(r)
    /\ loop' = r
    /\ \E d \in bodies : data' = [data EXCEPT ![r] = d]
    /\ Goto(r, Entry(kind[r]))
    /\ UNCHANGED <<kind, local, calls, disk, ftext, resp>>

Start(r) == StartWith(r, Inputs(kind[r]))

\* what `resp` keeps of a response once it has been sent
StatusLine(response) == [response EXCEPT !.text = <<>>]

\* the handler has returned or raised with local.final: the response goes out,
\* the coroutine's frame (request body, locals, the record of its calls and of
\* what it wrote) is dropped and the loop thread is free again
Respond(r) ==
    /\ pc[r] = "respond"
    /\ loop = r
    /\ resp' = [resp EXCEPT ![r] = StatusLine(local[r].final)]
    /\ loop' = 0
    /\ Goto(r, "done")
    /\ data' = [data EXCEPT ![r] = NoData]
    /\ local' = [local EXCEPT ![r] = LocalInit]
    /\ calls' = [calls EXCEPT ![r] = CallsInit]
    /\ ftext' = [ftext EXCEPT ![r] = <<>>]
    /\ kind' = [kind EXCEPT ![r] = "none"]
    /\ UNCHANGED disk

\* ------------------------------------------------------------- /api/analyze

GenTexts == {<<"o","k">>}       \* texts the hosted model generates

\* a variant that tests `text is None`
TextIsNone(d) == ~d.present

\* `if not text`: a missing field and an empty string are both falsy
TextMissing(d) == ~d.present \/ d.val = <<>>

\* analyze_endpoint, whole: the field check, then one call of analyze_text
AnalyzeEndpoint(r) ==
    /\ pc[r] = "analyze"
    /\ loop = r
    /\ IF TextMissing(data[r])
       THEN /\ Set(r, [final |-> HTTPException(400, <<"'text' field is required in request body">>)])
            /\ UNCHANGED calls
       ELSE /\ Count(r, "analyze")
            /\ \/ \E t \in GenTexts : Set(r, [final |-> Ok("analysis", t)])
               \/ Set(r, [final |-> HTTPException(500, <<"generate_content failed">>)])
    /\ Goto(r, "respond")
    /\ UNCHANGED <<loop, kind, data, disk, ftext, resp>>

\* ------------------------------------------------------ /api/transcribe-youtube

\* `if not url`
UrlMissing(d) == ~d.present \/ d.val = <<>>

\* `if not re.match(YOUTUBE_URL_REGEX, url)`
UrlInvalid(d) == ~YOUTUBE_URL_REGEX(UrlChars(d.val))

\* transcribe_youtube_endpoint up to the try block
YoutubeValidate(r) ==
    /\ pc[r] = "yt_validate"
    /\ loop = r
    /\ IF UrlMissing(data[r])
       THEN /\ Set(r, [final |-> HTTPException(400, <<"'url' field is required in request body">>)])
            /\ Goto(r, "respond")
       ELSE IF UrlInvalid(data[r])
       THEN /\ Set(r, [final |-> HTTPException(400,
                        <<"Invalid YouTube URL. Supported formats: youtube.com, youtu.be">>)])
            /\ Goto(r, "respond")
       ELSE /\ Goto(r, "dl_mkdtemp")
            /\ UNCHANGED local
    /\ UNCHANGED <<loop, kind, data, calls, disk, ftext, resp>>

MkdtempError == <<"mkdtemp: No space left on device">>

\* download_youtube_audio: tempfile.mkdtemp() at the head of the try block
DownloadMkdtemp(r) ==
    /\ pc[r] = "dl_mkdtemp"
    /\ loop = r
    /\ \/ /\ disk' = disk \cup {DownloadDir(r)}
          /\ Set(r, [temp_dir |-> DownloadDir(r)])
          /\ Goto(r, "dl_extract")
       \/ /\ Set(r, [e |-> MkdtempError])
          /\ Goto(r, "dl_cleanup")
          /\ UNCHANGED disk
    /\ UNCHANGED <<loop, kind, data, calls, ftext, resp>>

\* a variant in which the fallback is not confined to the except block
AfterDownloadFallsThrough == "fb_video_id"

\* `return downloaded_file`: back in transcribe_youtube_endpoint
AfterDownload == "yt_dispatch"

\* download_youtube_audio: the yt-dlp extraction and the check that the file exists
DownloadExtract(r) ==
    /\ pc[r] = "dl_extract"
    /\ loop = r
    /\ Count(r, "download")
    /\ \/ /\ disk' = disk \cup {DownloadDir(r) \o <<"audio.m4a">>}
          /\ Set(r, [audio_file_path |-> DownloadDir(r) \o <<"audio.m4a">>])
          /\ Goto(r, AfterDownload)
          /\ data' = [data EXCEPT ![r] = NoData]      \* url is not read again
       \/ /\ Set(r, [e |-> <<"Downloaded file not found after extraction">>])
          /\ Goto(r, "dl_cleanup")
          /\ UNCHANGED <<disk, data>>
       \/ /\ Set(r, [e |-> <<"ERROR: Sign in to confirm you're not a bot">>])
          /\ Goto(r, "dl_cleanup")
          /\ UNCHANGED <<disk, data>>
    /\ UNCHANGED <<loop, kind, ftext, resp>>

\* download_youtube_audio: the except block removes the directory of the failed
\* download; rmtree(ignore_errors=True) may leave it behind without raising
DownloadCleanup(r) ==
    /\ pc[r] = "dl_cleanup"
    /\ loop = r
    /\ IF local[r].temp_dir # None /\ Exists(local[r].temp_dir)
       THEN \/ disk' = RmTree(local[r].temp_dir) /\ UNCHANGED local
            \/ UNCHANGED disk /\ Set(r, [cleanup_failed |-> TRUE])
       ELSE UNCHANGED <<disk, local>>
    /\ Goto(r, "fb_video_id")
    /\ UNCHANGED <<loop, kind, data, calls, ftext, resp>>

\* a variant that reports the exception of the fallback
DetailsOfFallback(e, transcript_error) == transcript_error

\* `Details: {str(e)}` inside the inner except block: e is the exception of the
\* primary download, transcript_error the one just caught
DetailsOf(e, transcript_error) == e

\* the messages of the exceptions get_youtube_transcript raises
NoVideoId == <<"Failed to get transcript: ", "Could not extract video ID from URL">>
NoTranscript == <<"No transcript available for this video: ", "No transcripts available for this video">>

\* the composed error of download_youtube_audio, as the endpoint answers it
BothFailed(e) ==
    HTTPException(500, <<"Unable to process this YouTube video. ",
                         "The video may be restricted, private, or unavailable. ",
                         "Details: ">> \o e)

\* get_youtube_transcript is entered: extract_video_id, whose ValueError is
\* re-raised, caught by download_youtube_audio and replaced by the composed error
FallbackVideoId(r) ==
    /\ pc[r] = "fb_video_id"
    /\ loop = r
    /\ Count(r, "fallback")
    /\ \E m \in {extract_video_id(UrlChars(data[r].val))} :
           IF m.found
           THEN /\ Set(r, [lang |-> 1])
                /\ Goto(r, "fb_get_transcript")
                /\ data' = [data EXCEPT ![r] = NoData]    \* url is not read again
           ELSE /\ Set(r, [transcript_error |-> NoVideoId,
                           pending |-> BothFailed(DetailsOf(local[r].e, NoVideoId))])
                /\ Goto(r, "yt_finally")
                /\ UNCHANGED data
    /\ UNCHANGED <<loop, kind, disk, ftext, resp>>

languages_to_try == << <<"en">>, <<"es">>, <<"en", "es">> >>

\* get_youtube_transcript: one turn of the loop over languages_to_try, and, when
\* the loop ends, the formatting of the transcript
FallbackGetTranscript(r) ==
    /\ pc[r] = "fb_get_transcript"
    /\ loop = r
    /\ Count(r, "transcript")
    /\ LET lang_codes == languages_to_try[local[r].lang]
           queried == Append(local[r].queried, lang_codes)
           failed == [transcript_error |-> NoTranscript,
                      pending |-> BothFailed(DetailsOf(local[r].e, NoTranscript))]
       IN  \/ \* get_transcript raises: continue with the next preference
              IF local[r].lang < Len(languages_to_try)
              THEN /\ Set(r, [lang |-> local[r].lang + 1, queried |-> queried])
                   /\ UNCHANGED pc
              ELSE /\ Set(r, [queried |-> queried] @@ failed)
                   /\ Goto(r, "yt_finally")
           \/ \* get_transcript returns: break
              \E d \in Transcripts :
                IF d = <<>>
                THEN /\ Set(r, [queried |-> queried, found_lang |-> local[r].lang] @@ failed)
                     /\ Goto(r, "yt_finally")
                ELSE /\ Set(r, [queried |-> queried, found_lang |-> local[r].lang,
                                transcript_data |-> d,
                                transcript_text |-> FormatTranscript(d)])
                     /\ Goto(r, "fb_materialise")
    /\ UNCHANGED <<loop, kind, data, disk, ftext, resp>>

WriteError == <<"write: No space left on device">>

\* download_youtube_audio: the transcript is written to a file in a new directory
FallbackMaterialise(r) ==
    /\ pc[r] = "fb_materialise"
    /\ loop = r
    /\ \/ \* mkdtemp raises
          /\ Set(r, [transcript_error |-> MkdtempError,
                     pending |-> BothFailed(DetailsOf(local[r].e, MkdtempError))])
          /\ Goto(r, "yt_finally")
          /\ UNCHANGED <<disk, ftext>>
       \/ \* open or write raises: the directory has been made
          /\ \/ disk' = disk \cup {TranscriptDir(r)}
             \/ disk' = disk \cup {TranscriptDir(r), TranscriptDir(r) \o <<"transcript.txt">>}
          /\ Set(r, [temp_dir |-> TranscriptDir(r), transcript_error |-> WriteError,
                     pending |-> BothFailed(DetailsOf(local[r].e, WriteError))])
          /\ Goto(r, "yt_finally")
          /\ UNCHANGED ftext
       \/ /\ disk' = disk \cup {TranscriptDir(r), TranscriptDir(r) \o <<"transcript.txt">>}
          /\ ftext' = [ftext EXCEPT ![r] = WriteText(local[r].transcript_text)]
          /\ Set(r, [temp_dir |-> TranscriptDir(r),
                     audio_file_path |-> <<"TRANSCRIPT:">> \o TranscriptDir(r) \o <<"transcript.txt">>])
          /\ Goto(r, "yt_dispatch")
    /\ UNCHANGED <<loop, kind, data, calls, resp>>

\* transcribe_youtube_endpoint after download_youtube_audio returned: a transcript
\* marker is read back from its file, an audio path goes to transcribe_audio
YoutubeDispatch(r) ==
    /\ pc[r] = "yt_dispatch"
    /\ loop = r
    /\ IF StartsWith(local[r].audio_file_path, <<"TRANSCRIPT:">>)
       THEN /\ \/ Set(r, [pending |-> Ok("transcription", ReadText(ftext[r]))])
               \/ Set(r, [pending |-> HTTPException(500, <<"open: Too many open files">>)])
            /\ Goto(r, "yt_finally")
       ELSE /\ Goto(r, "pa_upload")
            /\ UNCHANGED local
    /\ UNCHANGED <<loop, kind, data, calls, disk, ftext, resp>>

\* transcribe_youtube_endpoint: the finally block
YoutubeFinally(r) ==
    /\ pc[r] = "yt_finally"
    /\ loop = r
    /\ LET audio_file_path == local[r].audio_file_path
           file_path == IF StartsWith(audio_file_path, <<"TRANSCRIPT:">>)
                        THEN RemoveAll(audio_file_path, "TRANSCRIPT:")
                        ELSE audio_file_path
           temp_dir == Dirname(file_path)
       IN  IF audio_file_path # None /\ Exists(file_path) /\ temp_dir # <<>> /\ Exists(temp_dir)
           THEN \/ disk' = RmTree(temp_dir) /\ Set(r, [final |-> local[r].pending])
                \/ UNCHANGED disk
                   /\ Set(r, [final |-> local[r].pending, cleanup_failed |-> TRUE])
           ELSE UNCHANGED disk /\ Set(r, [final |-> local[r].pending])
    /\ Goto(r, "respond")
    /\ UNCHANGED <<loop, kind, data, calls, ftext, resp>>

\* ------------------------------------------------------------ process_audio

HandleStates == {"PROCESSING", "ACTIVE", "FAILED"}

\* a variant of the loop condition: wait until the handle is ACTIVE
AfterUploadUntilActive(state) == IF state # "ACTIVE" THEN "pa_poll" ELSE "pa_generate"

\* `while audio_file.state.name == "PROCESSING"`: poll again, or go on
AfterUpload(state) == IF state = "PROCESSING" THEN "pa_poll" ELSE "pa_generate"

\* genai.upload_file: raises, or returns a handle in some state
ProcessAudioUpload(r) ==
    /\ pc[r] = "pa_upload"
    /\ loop = r
    /\ Count(r, "upload")
    /\ \/ /\ Set(r, [result |-> Raised(<<"upload_file failed">>)])
          /\ Goto(r, "pa_finally")
       \/ \E s \in HandleStates :
            /\ Set(r, [audio_file |-> s])
            /\ Goto(r, AfterUpload(s))
    /\ UNCHANGED <<loop, kind, data, disk, ftext, resp>>

\* a turn of `while audio_file.state.name == "PROCESSING"` begins: time.sleep(1),
\* a blocking sleep on the loop thread
ProcessAudioSleep(r) ==
    /\ pc[r] = "pa_poll"
    /\ loop = r
    /\ Goto(r, "pa_get_file")
    /\ UNCHANGED <<loop, kind, data, local, calls, disk, ftext, resp>>

\* the turn ends: genai.get_file raises or reports the state of the handle
ProcessAudioGetFile(r) ==
    /\ pc[r] = "pa_get_file"
    /\ loop = r
    /\ Count(r, "poll")
    /\ \/ /\ Set(r, [result |-> Raised(<<"get_file failed">>)])
          /\ Goto(r, "pa_finally")
       \/ \E s \in HandleStates :
            /\ Set(r, [audio_file |-> s])
            /\ Goto(r, AfterUpload(s))
    /\ UNCHANGED <<loop, kind, data, disk, ftext, resp>>

\* the FAILED check and the generation request
ProcessAudioGenerate(r) ==
    /\ pc[r] = "pa_generate"
    /\ loop = r
    /\ IF local[r].audio_file = "FAILED"
       THEN /\ Set(r, [result |-> Raised(<<"Gemini audio processing failed">>)])
            /\ UNCHANGED calls
       ELSE /\ Count(r, "generate")
            /\ \/ \E t \in GenTexts : Set(r, [result |-> Returned(t)])
               \/ Set(r, [result |-> Raised(<<"generate_content failed">>)])
    /\ Goto(r, "pa_finally")
    /\ UNCHANGED <<loop, kind, data, disk, ftext, resp>>

\* a variant that deletes the handle at the end of the try block only
HandleHeldAndReturned(l) == l.audio_file # "None" /\ l.result.ok

\* `if audio_file:` of the finally block
HandleHeld(l) == l.audio_file # "None"

\* what the endpoint's try/except makes of the result of transcribe_audio
EndpointOutcome(result) ==
    IF result.ok THEN Ok("transcription", result.text)
    ELSE HTTPException(500, result.text)

AfterProcessAudio(k) == IF k = "transcribe" THEN "tr_finally" ELSE "yt_finally"

\* the finally block of process_audio: audio_file.delete(), whose exception is
\* logged and dropped; then the result reaches the endpoint that awaited it
ProcessAudioFinally(r) ==
    /\ pc[r] = "pa_finally"
    /\ loop = r
    /\ IF HandleHeld(local[r])
       THEN /\ Count(r, "delete")
            /\ \/ Set(r, [pending |-> EndpointOutcome(local[r].result)])
               \/ Set(r, [pending |-> EndpointOutcome(local[r].result),
                          cleanup_failed |-> TRUE])
       ELSE /\ UNCHANGED calls
            /\ Set(r, [pending |-> EndpointOutcome(local[r].result)])
    /\ Goto(r, AfterProcessAudio(kind[r]))
    /\ UNCHANGED <<loop, kind, data, disk, ftext, resp>>

\* ----------------------------------------------------------- /api/transcribe

\* transcribe_endpoint: the upload is copied to a NamedTemporaryFile(delete=False);
\* temp_file_path is assigned after the copy
TranscribeSave(r) ==
    /\ pc[r] = "tr_save"
    /\ loop = r
    /\ \/ \* NamedTemporaryFile raises
          /\ Set(r, [pending |-> HTTPException(500, <<"mkstemp: No space left on device">>)])
          /\ Goto(r, "tr_finally")
          /\ UNCHANGED disk
       \/ \* shutil.copyfileobj raises: the file exists, temp_file_path is None
          /\ disk' = disk \cup {UploadPath(r)}
          /\ Set(r, [pending |-> HTTPException(500, <<"write: No space left on device">>)])
          /\ Goto(r, "tr_finally")
       \/ /\ disk' = disk \cup {UploadPath(r)}
          /\ Set(r, [temp_file_path |-> UploadPath(r)])
          /\ Goto(r, "pa_upload")
    /\ UNCHANGED <<loop, kind, data, calls, ftext, resp>>

\* transcribe_endpoint: the finally block; an exception of os.remove is not
\* caught and replaces the pending return value or HTTPException
TranscribeFinally(r) ==
    /\ pc[r] = "tr_finally"
    /\ loop = r
    /\ IF local[r].temp_file_path # None /\ Exists(local[r].temp_file_path)
       THEN \/ /\ disk' = disk \ {local[r].temp_file_path}
               /\ Set(r, [final |-> local[r].pending])
            \/ /\ UNCHANGED disk
               /\ Set(r, [final |-> Unhandled, cleanup_failed |-> TRUE])
       ELSE /\ UNCHANGED disk
            /\ Set(r, [final |-> local[r].pending])
    /\ Goto(r, "respond")
    /\ UNCHANGED <<loop, kind, data, calls, ftext, resp>>

\* --------------------------------------------------------- the specification

Step(r) ==
    \/ AnalyzeEndpoint(r)
    \/ YoutubeValidate(r)
    \/ DownloadMkdtemp(r)
    \/ DownloadExtract(r)
    \/ DownloadCleanup(r)
    \/ FallbackVideoId(r)
    \/ FallbackGetTranscript(r)
    \/ FallbackMaterialise(r)
    \/ YoutubeDispatch(r)
    \/ YoutubeFinally(r)
    \/ ProcessAudioUpload(r)
    \/ ProcessAudioSleep(r)
    \/ ProcessAudioGetFile(r)
    \/ ProcessAudioGenerate(r)
    \/ ProcessAudioFinally(r)
    \/ TranscribeSave(r)
    \/ TranscribeFinally(r)
    \/ Respond(r)

Next == \E r \in Reqs : Arrive(r) \/ Start(r) \/ Step(r)

Spec == Init /\ [][Next]_vars

\* The same server with its requests drawn from LiveInputs and its caption
\* results from LiveTranscripts.  It does not stop while a step is possible:
\* the running handler keeps executing (every external call returns or raises)
\* and a free loop thread starts a queued handler.
LiveUrls == {<<"x">>, <<"youtube.com", "/", "x">>, <<"https://", "youtu.be", "/", "x">>}
LiveInputs(k) ==
    CASE k = "youtube" -> {NoData} \cup {[present |-> TRUE, val |-> u] : u \in LiveUrls}
      [] OTHER -> Inputs(k)
LiveTranscripts ==
    {d \in Transcripts :
        \A i \in 1..Len(d) : d[i] = [start |-> 125700, text |-> <<"h","i">>]}

LiveNext ==
    \E r \in Reqs :
        \/ Arrive(r)
        \/ StartWith(r, LiveInputs(kind[r]))
        \/ Step(r) /\ local'[r].transcript_data \in LiveTranscripts

LiveSpec == Init /\ [][LiveNext]_vars /\ WF_vars(LiveNext)

\* ------------------------------------------------------------------ claims

Finished(r) == pc[r] = "respond"    \* the handler has returned or raised local.final

PrimarySucceeded(r) == local[r].audio_file_path = DownloadDir(r) \o <<"audio.m4a">>
PrimaryFailed(r) == local[r].e # None
FallbackSucceeded(r) == StartsWith(local[r].audio_file_path, <<"TRANSCRIPT:">>)
ModelCalls(r) == calls[r].upload + calls[r].poll + calls[r].generate + calls[r].delete

\* C1: a successful primary download is followed by no caption call in that
\* request, and a caption call is made only once the primary download has failed.
C1_CaptionOnlyAfterPrimaryFailure ==
    \A r \in Reqs :
        /\ PrimarySucceeded(r) => calls[r].fallback = 0 /\ calls[r].transcript = 0
        /\ calls[r].fallback > 0 \/ calls[r].transcript > 0 => PrimaryFailed(r)

C1_Witness ==
    \E r \in Reqs :
        /\ Finished(r) /\ kind[r] = "youtube"
        /\ PrimarySucceeded(r) /\ calls[r].download = 1
        /\ local[r].final.status = 200

ReadFault == HTTPException(500, <<"open: Too many open files">>)

\* C2: when the primary download fails and the caption fallback succeeds, the
\* request answers 200 with the formatted caption transcript and calls the hosted
\* model not once (the transcript file being readable).
C2_FallbackAnswersTranscript ==
    \A r \in Reqs :
        Finished(r) /\ kind[r] = "youtube" /\ PrimaryFailed(r) /\ FallbackSucceeded(r)
                /\ local[r].final # ReadFault
            => /\ local[r].final = Ok("transcription", local[r].transcript_text)
               /\ ModelCalls(r) = 0

\* C3: when a transcribe-youtube request has finished, on whatever path, none of
\* the temporary directories it made exists (no removal having failed).
C3_NoTempDirSurvives ==
    \A r \in Reqs :
        Finished(r) /\ kind[r] = "youtube" /\ ~local[r].cleanup_failed
            => \A d \in TempDirsOf(r) : ~Exists(d)

\* C4: when a transcribe request has finished, whether it succeeded or failed at
\* saving the upload or at transcription, the temporary file of the upload does
\* not exist (no removal having failed).
C4_NoUploadFileSurvives ==
    \A r \in Reqs :
        Finished(r) /\ kind[r] = "transcribe" /\ ~local[r].cleanup_failed
            => ~Exists(UploadPath(r))

AfterProcessAudioOf(r) == pc[r] \in {"tr_finally", "yt_finally", "respond"}

\* C5: whenever process_audio has returned or raised after the upload gave it a
\* handle, it has attempted the deletion of the handle exactly once; without a
\* handle it attempts none; and once the deletion is attempted the handle is not
\* polled or used for generation again.
C5_HandleDeletedOnEveryExit ==
    /\ [](\A r \in Reqs :
            AfterProcessAudioOf(r) =>
                calls[r].delete = (IF local[r].audio_file # "None" THEN 1 ELSE 0))
    /\ [][\A r \in Reqs :
            calls[r].delete > 0 /\ pc'[r] # "done" =>
                /\ calls'[r].poll = calls[r].poll
                /\ calls'[r].generate = calls[r].generate
                /\ calls'[r].upload = calls[r].upload]_vars

C5_Witness ==
    \E r \in Reqs :
        /\ Finished(r)
        /\ local[r].audio_file = "PROCESSING" /\ ~local[r].result.ok
        /\ calls[r].poll > 0 /\ calls[r].delete = 1

\* C6: a cleanup step that fails leaves the outcome of the request as the
\* endpoint's try/except block determined it.
C6_CleanupFailureKeepsOutcome ==
    \A r \in Reqs :
        Finished(r) /\ local[r].cleanup_failed => local[r].final = local[r].pending

Started(r) == pc[r] # "idle"
Resolved(r) == pc[r] = "done"

\* C7 as stated: every started request eventually resolves, whatever states the
\* hosted model reports for the handle.
C7_EveryRequestResolves == \A r \in Reqs : Started(r) ~> Resolved(r)

\* C7, amended: if no handle is reported in the processing state for ever, every
\* started request eventually resolves, with a response that is then never
\* replaced.
C7_ResolvesUnlessProcessingForEver ==
    /\ (\A r \in Reqs : []<>(local[r].audio_file # "PROCESSING"))
            => (\A r \in Reqs : Started(r) ~> Resolved(r))
    /\ [][\A r \in Reqs : Resolved(r) => resp[r] # NoResp /\ resp'[r] = resp[r]]_vars

C7_Witness ==
    \E a, b \in Reqs :
        /\ Resolved(a) /\ resp[a].status = 200
        /\ Finished(b) /\ calls[b].poll > 1 /\ local[b].result.ok

\* C8: while one request waits in the polling loop of process_audio, a queued
\* request can be started.
C8_PollDoesNotBlockOthers ==
    \A a, b \in Reqs :
        a # b /\ pc[a] \in {"pa_poll", "pa_get_file"} /\ pc[b] = "queued" => ENABLED Start(b)

\* the url shape of the interface: optional scheme, optional www., host
\* youtube.com or youtu.be, a slash, then a non-empty path
UrlShape(u) ==
    \E scheme \in {<<>>, <<"http://">>, <<"https://">>}, www \in {<<>>, <<"www.">>},
       host \in {<<"youtube.com">>, <<"youtu.be">>} :
        LET prefix == scheme \o www \o host \o <<"/">>
        IN  StartsWith(u, prefix) /\ Len(u) > Len(prefix)

UrlUnacceptable(d) == ~d.present \/ d.val = <<>> \/ ~UrlShape(d.val)

\* C9: a transcribe-youtube request whose url is missing, empty or not of the
\* url shape is answered 400 by the validation step, which makes no directory;
\* and a request answered 400 has made no download, caption or hosted-model call.
C9_BadUrlRejectedBeforeAnyCall ==
    /\ [][\A r \in Reqs :
            pc[r] = "yt_validate" /\ pc'[r] # "yt_validate" /\ UrlUnacceptable(data[r]) =>
                /\ pc'[r] = "respond"
                /\ local'[r].final.status = 400
                /\ calls'[r] = CallsInit
                /\ disk' = disk]_vars
    /\ [](\A r \in Reqs :
            Finished(r) /\ kind[r] = "youtube" /\ local[r].final.status = 400 =>
                /\ calls[r] = CallsInit
                /\ \A d \in TempDirsOf(r) : ~Exists(d))

C9_Witness ==
    \E r \in Reqs :
        /\ Finished(r) /\ kind[r] = "youtube"
        /\ data[r].present /\ Len(data[r].val) = MaxUrlLen /\ ~UrlShape(data[r].val)
        /\ local[r].final.status = 400

\* C10: an analyze request without text, or with an empty one, is answered 400
\* without a call of analyze_text; one with a non-empty text calls analyze_text
\* exactly once and is answered 200, or 500 when the call raises, never 400.
C10_AnalyzeValidation ==
    \A r \in Reqs :
        Finished(r) /\ kind[r] = "analyze" =>
            IF ~data[r].present \/ data[r].val = <<>>
            THEN local[r].final.status = 400 /\ calls[r].analyze = 0
            ELSE /\ calls[r].analyze = 1
                 /\ \/ local[r].final.status = 200 /\ local[r].final.kind = "analysis"
                    \/ local[r].final = HTTPException(500, <<"generate_content failed">>)

C10_Witness ==
    \E r \in Reqs :
        /\ Finished(r) /\ kind[r] = "analyze"
        /\ data[r].val # <<>> /\ calls[r].analyze = 1 /\ local[r].final.status = 500

\* t occurs in s as a run of consecutive elements
Contains(s, t) == \E i \in 0..Len(s) - Len(t) : SubSeq(s, i + 1, i + Len(t)) = t

BothFailedIn(r) == PrimaryFailed(r) /\ local[r].transcript_error # None

\* C11: when the primary download and the caption fallback have both failed, the
\* request answers 500 with the one composed message that ends with the detail of
\* the primary failure, and the error of the fallback (where it differs from that
\* detail) occurs nowhere in the message.
C11_ComposedErrorCarriesPrimaryDetail ==
    \A r \in Reqs :
        Finished(r) /\ kind[r] = "youtube" /\ BothFailedIn(r) =>
            /\ local[r].final =
                  [status |-> 500, kind |-> "detail",
                   text |-> <<"Unable to process this YouTube video. ",
                              "The video may be restricted, private, or unavailable. ",
                              "Details: ">> \o local[r].e]
            /\ local[r].transcript_error # local[r].e
                  => ~Contains(local[r].final.text, local[r].transcript_error)

C11_Witness ==
    \E r \in Reqs :
        /\ Finished(r) /\ kind[r] = "youtube"
        /\ local[r].e = <<"ERROR: Sign in to confirm you're not a bot">>
        /\ local[r].transcript_error = NoTranscript
        /\ Len(local[r].queried) = 3
        /\ local[r].final.status = 500

\* ---------------------------------------------- the caption formatter alone

\* starts (ms) around the minute, the hour and the hundred-minute boundaries
FormatStartsMs ==
    {0, 59999, 60000, 125000, 125700, 3599000, 3600000, 3661000, 5999000, 6000000}
FormatInputs ==
    SeqsUpTo([start : FormatStartsMs, text : {<<"h","i">>}], MaxEntries) \ {<<>>}

\* get_transcript has just returned transcript_data to request 1
FormatInit ==
    /\ loop = 1
    /\ pc = [r \in Reqs |-> IF r = 1 THEN "fb_get_transcript" ELSE "idle"]
    /\ kind = [r \in Reqs |-> IF r = 1 THEN "youtube" ELSE "none"]
    /\ data = [r \in Reqs |-> NoData]
    /\ \E d \in FormatInputs :
          local = [r \in Reqs |->
                     IF r = 1
                     THEN Merge(LocalInit,
                                [e |-> <<"ERROR: Sign in to confirm you're not a bot">>,
                                 lang |-> 1, found_lang |-> 1,
                                 queried |-> <<languages_to_try[1]>>,
                                 transcript_data |-> d])
                     ELSE LocalInit]
    /\ calls = [r \in Reqs |->
                 IF r = 1
                 THEN Merge(CallsInit, [download |-> 1, fallback |-> 1, transcript |-> 1])
                 ELSE CallsInit]
    /\ disk = {}
    /\ ftext = [r \in Reqs |-> <<>>]
    /\ resp = [r \in Reqs |-> NoResp]

\* get_youtube_transcript: the loop that formats the entries
FormatApply(r) ==
    /\ pc[r] = "fb_get_transcript"
    /\ loop = r
    /\ local[r].transcript_data # <<>>
    /\ Set(r, [transcript_text |-> FormatTranscript(local[r].transcript_data)])
    /\ Goto(r, "fb_materialise")
    /\ UNCHANGED <<loop, kind, data, calls, disk, ftext, resp>>

FormatNext == \E r \in Reqs : FormatApply(r)

FormatSpec == FormatInit /\ [][FormatNext]_vars

\* reading a formatted transcript back: its lines, the stamp that opens a line,
\* the fields of a stamp and the number a field spells
LineEnds(s) == {i \in 1..Len(s) : s[i] = "\n"}
NthOf(S, k) == CHOOSE i \in S : Cardinality({j \in S : j <= i}) = k
Line(s, k) ==
    SubSeq(s, IF k = 1 THEN 1 ELSE NthOf(LineEnds(s), k - 1) + 1, NthOf(LineEnds(s), k) - 1)
Stamp(line) == SubSeq(line, 1, Least({i \in 1..Len(line) : line[i] = "]"}))
Fields(stamp) ==
    LET inner == SubSeq(stamp, 2, Len(stamp) - 1)
        cuts == {i \in 1..Len(inner) : inner[i] = ":"}
        n == Cardinality(cuts) + 1
    IN  [k \in 1..n |->
            SubSeq(inner, IF k = 1 THEN 1 ELSE NthOf(cuts, k - 1) + 1,
                          IF k = n THEN Len(inner) ELSE NthOf(cuts, k) - 1)]
DigitValue(c) == CHOOSE n \in 0..9 : Digit[n + 1] = c
ParseDec(f) ==
    LET value[i \in 0..Len(f)] == IF i = 0 THEN 0 ELSE 10 * value[i - 1] + DigitValue(f[i])
    IN  value[Len(f)]
IsDigits(f) == \A i \in 1..Len(f) : \E n \in 0..9 : Digit[n + 1] = f[i]

Formatted(r) == local[r].transcript_text # <<>>
WholeSeconds(entry) == (entry.start - (entry.start % 1000)) \div 1000
StampOf(r, k) == Stamp(Line(local[r].transcript_text, k))

\* C12: the formatter renders the entry with start s (whole seconds) as [MM:SS],
\* MM = s div 60 and SS = s mod 60, each padded with zeros to two digits and no
\* further, the minutes never wrapped into hours; 125 gives [02:05] and 3661
\* gives [61:01].
C12_StampIsMinutesAndSeconds ==
    \A r \in Reqs : Formatted(r) =>
        \A k \in 1..Len(local[r].transcript_data) :
            LET s == WholeSeconds(local[r].transcript_data[k])
                f == Fields(StampOf(r, k))
            IN  /\ Head(StampOf(r, k)) = "["
                /\ Len(f) = 2
                /\ IsDigits(f[1]) /\ IsDigits(f[2])
                /\ ParseDec(f[1]) = s \div 60
                /\ ParseDec(f[2]) = s % 60
                /\ Len(f[2]) = 2
                /\ Len(f[1]) >= 2 /\ (Len(f[1]) > 2 => f[1][1] # "0")
                /\ s = 125 => StampOf(r, k) = <<"[","0","2",":","0","5","]">>
                /\ s = 3661 => StampOf(r, k) = <<"[","6","1",":","0","1","]">>

C12_Witness ==
    \E r \in Reqs :
        /\ Formatted(r)
        /\ Len(local[r].transcript_data) = 2
        /\ local[r].transcript_data[1].start = 125700
        /\ local[r].transcript_data[2].start = 3661000

\* line k of the formatted transcript is the stamp, a space and the text of entry k
InOrderOneBreakEach(r) ==
    /\ Cardinality(LineEnds(local[r].transcript_text)) = Len(local[r].transcript_data)
    /\ local[r].transcript_text[Len(local[r].transcript_text)] = "\n"
    /\ \A k \in 1..Len(local[r].transcript_data) :
          Line(local[r].transcript_text, k)
              = StampOf(r, k) \o <<" ">> \o local[r].transcript_data[k].text

\* C13 as stated: an entry below one hour is stamped [MM:SS], an entry at one
\* hour or more is stamped [HH:MM:SS], and the entries follow one another in
\* their order, one line break after each.
C13_HourFieldFromOneHour ==
    \A r \in Reqs : Formatted(r) =>
        /\ InOrderOneBreakEach(r)
        /\ \A k \in 1..Len(local[r].transcript_data) :
              LET s == WholeSeconds(local[r].transcript_data[k])
                  f == Fields(StampOf(r, k))
              IN  IF s < 3600
                  THEN /\ Len(f) = 2
                       /\ ParseDec(f[1]) = s \div 60 /\ ParseDec(f[2]) = s % 60
                  ELSE /\ Len(f) = 3
                       /\ ParseDec(f[1]) = s \div 3600
                       /\ ParseDec(f[2]) = (s \div 60) % 60
                       /\ ParseDec(f[3]) = s % 60

\* C13, amended: every entry, below one hour or not, is stamped [MM:SS] with the
\* minutes counted in full (60 and more from one hour on), and the entries follow
\* one another in their order, one line break after each.
C13_MinutesRunPastTheHour ==
    \A r \in Reqs : Formatted(r) =>
        /\ InOrderOneBreakEach(r)
        /\ \A k \in 1..Len(local[r].transcript_data) :
              LET s == WholeSeconds(local[r].transcript_data[k])
                  f == Fields(StampOf(r, k))
              IN  /\ Len(f) = 2
                  /\ ParseDec(f[1]) = s \div 60 /\ ParseDec(f[2]) = s % 60
                  /\ s >= 3600 => ParseDec(f[1]) >= 60

C13_Witness ==
    \E r \in Reqs :
        /\ Formatted(r)
        /\ Len(local[r].transcript_data) = 2
        /\ WholeSeconds(local[r].transcript_data[1]) = 3599
        /\ WholeSeconds(local[r].transcript_data[2]) = 3600

\* a url, as tokens, in which no pattern of extract_video_id finds an id: with
\* these tokens an id can only follow `youtu.be/`
NoIdShape(u) ==
    ~\E i \in 1..Len(u) - 2 : u[i] = "youtu.be" /\ u[i + 1] = "/" /\ u[i + 2] # "/"

Composed(e) ==
    [status |-> 500, kind |-> "detail",
     text |-> <<"Unable to process this YouTube video. ",
                "The video may be restricted, private, or unavailable. ",
                "Details: ">> \o e]

\* C14: for a url that passes the pattern of the endpoint and holds no video id,
\* the fallback step entered after the failed download fails at once, with no
\* caption query; the failure is caught and the request ends with the composed
\* acquisition error, a 500 with a detail.
C14_NoVideoIdFailsFast ==
    /\ [][\A r \in Reqs :
            /\ pc[r] = "fb_video_id" /\ pc'[r] # "fb_video_id"
            /\ data[r].present /\ UrlShape(data[r].val) /\ NoIdShape(data[r].val)
            => /\ pc'[r] = "yt_finally"
               /\ calls'[r].fallback = 1 /\ calls'[r].transcript = 0
               /\ local'[r].transcript_error # None
               /\ local'[r].pending = Composed(local[r].e)]_vars
    /\ [](\A r \in Reqs :
            /\ Finished(r) /\ kind[r] = "youtube" /\ calls[r].fallback > 0
            /\ data[r].present /\ NoIdShape(data[r].val)
            => /\ calls[r].transcript = 0 /\ ModelCalls(r) = 0
               /\ local[r].final = Composed(local[r].e))

C14_Witness ==
    \E r \in Reqs :
        /\ Finished(r) /\ kind[r] = "youtube"
        /\ data[r].present /\ data[r].val = <<"youtube.com", "/", "x">>
        /\ calls[r].fallback = 1 /\ calls[r].transcript = 0
        /\ local[r].final.status = 500

Preferences == << <<"en">>, <<"es">>, <<"en", "es">> >>

\* the queries follow the fixed order, and a query that returned is the last one
QueriedInOrder(r) ==
    /\ Len(local[r].queried) = calls[r].transcript
    /\ Len(local[r].queried) <= Len(Preferences)
    /\ local[r].queried = SubSeq(Preferences, 1, Len(local[r].queried))
    /\ local[r].found_lang # 0 => Len(local[r].queried) = local[r].found_lang

QueriesFailed(r) == local[r].transcript_error = NoTranscript

\* C15: the caption source is queried with [en], [es], [en, es] in that order;
\* the first query that returns supplies the whole transcript and ends the
\* querying; a preference is queried only after all earlier ones failed; and the
\* querying ends in failure only when all three preferences failed.
C15_FixedOrderFirstMatchWins ==
    \A r \in Reqs :
        /\ QueriedInOrder(r)
        /\ local[r].found_lang # 0 /\ Formatted(r)
              => local[r].transcript_data \in Transcripts \ {<<>>}
        /\ QueriesFailed(r) =>
              local[r].found_lang = 0 /\ local[r].queried = Preferences

====
